---- MODULE Spec2Model ----
(***************************************************************************)
(* Model of wine_ranking.py: the rating validator, the JSON-backed store,  *)
(* the add / view / delete operations and the interactive menu loop.       *)
(*                                                                         *)
(* Text is a sequence of one-character strings.  A rating (a Python float) *)
(* is an integer number of hundredths, so 7.5 is 750 and 10.0 is 1000.     *)
(***************************************************************************)
EXTENDS Integers, Sequences, FiniteSets, TLC

VARIABLES pc, file, raw, name, rating, ratings, sorted_indices, shown,
          msg, loaded, loads, saves, text, echo, again

vars == <<pc, file, raw, name, rating, ratings, sorted_indices, shown,
          msg, loaded, loads, saves, text, echo, again>>

(***************************************************************************)
(* Bounds                                                                  *)
(***************************************************************************)
MaxLen == 4

MaxRecords == 3

(***************************************************************************)
(* Characters and Python string primitives                                 *)
(***************************************************************************)
\* U+0667 ARABIC-INDIC DIGIT SEVEN: a character of Unicode category Nd
ArabicSeven == "U+0667"

AsciiDigits == {"0", "1", "2", "3", "4", "5", "6", "7", "8", "9"}

Alphabet == {"0", "1", "5", ".", "-", "a", " ", ArabicSeven}

IsSpace(c) == c = " "

\* \d in a str pattern (no re.ASCII flag) and str.isdigit-style decimal
\* recognition in float()/int(): any Unicode decimal digit
IsDigit(c) == c \in AsciiDigits \cup {ArabicSeven}

DigitVal(c) ==
    CASE c = "0" -> 0 [] c = "1" -> 1 [] c = "2" -> 2 [] c = "3" -> 3
      [] c = "4" -> 4 [] c = "5" -> 5 [] c = "6" -> 6 [] c = "7" -> 7
      [] c = "8" -> 8 [] c = "9" -> 9 [] c = ArabicSeven -> 7

DigitChar(d) ==
    CASE d = 0 -> "0" [] d = 1 -> "1" [] d = 2 -> "2" [] d = 3 -> "3"
      [] d = 4 -> "4" [] d = 5 -> "5" [] d = 6 -> "6" [] d = 7 -> "7"
      [] d = 8 -> "8" [] d = 9 -> "9"

RECURSIVE lstrip(_)
lstrip(s) == IF s # <<>> /\ IsSpace(Head(s)) THEN lstrip(Tail(s)) ELSE s

RECURSIVE rstrip(_)
rstrip(s) ==
    IF s # <<>> /\ IsSpace(s[Len(s)]) THEN rstrip(SubSeq(s, 1, Len(s) - 1)) ELSE s

\* str.strip()
strip(s) == rstrip(lstrip(s))

AllDigits(s) == \A i \in 1..Len(s) : IsDigit(s[i])

RECURSIVE DigitsValue(_)
DigitsValue(s) ==
    IF s = <<>> THEN 0
    ELSE 10 * DigitsValue(SubSeq(s, 1, Len(s) - 1)) + DigitVal(s[Len(s)])

RECURSIVE DigitsOf(_)
DigitsOf(n) ==
    IF n < 10 THEN <<DigitChar(n)>>
    ELSE Append(DigitsOf(n \div 10), DigitChar(n % 10))

None == -1

ValueError == [ok |-> FALSE]

Value(n) == [ok |-> TRUE, val |-> n]

\* optional sign of a numeric literal
Unsigned(s) == IF s # <<>> /\ Head(s) \in {"+", "-"} THEN Tail(s) ELSE s

Signed(s, n) == IF s # <<>> /\ Head(s) = "-" THEN 0 - n ELSE n

DotPos(s) ==
    IF \E i \in 1..Len(s) : s[i] = "."
    THEN CHOOSE i \in 1..Len(s) : s[i] = "." /\ \A j \in 1..(i - 1) : s[j] # "."
    ELSE 0

\* float(text) for plain decimal literals (optional sign, digits, optional
\* fraction), in hundredths; fractional digits beyond the second are below
\* the resolution of the model
float(s0) ==
    LET s == Unsigned(strip(s0))
        d == DotPos(s)
        ip == IF d = 0 THEN s ELSE SubSeq(s, 1, d - 1)
        fp == IF d = 0 THEN <<>> ELSE SubSeq(s, d + 1, Len(s))
        f2 == SubSeq(fp \o <<"0", "0">>, 1, 2)
    IN  IF Len(ip) + Len(fp) > 0 /\ AllDigits(ip) /\ AllDigits(fp)
        THEN Value(Signed(strip(s0), 100 * DigitsValue(ip) + DigitsValue(f2)))
        ELSE ValueError

int_or_zero(s0) ==
    LET s == Unsigned(strip(s0))
    IN  IF s # <<>> /\ AllDigits(s)
        THEN Value(Signed(strip(s0), DigitsValue(s)))
        ELSE Value(0)

\* int(text): surrounding whitespace, an optional sign, then decimal digits
int(s0) ==
    LET s == Unsigned(strip(s0))
    IN  IF s # <<>> /\ AllDigits(s)
        THEN Value(Signed(strip(s0), DigitsValue(s)))
        ELSE ValueError

\* round(value, 1); the identity on every multiple of a tenth
round1(v) ==
    LET lo == (v \div 10) * 10
    IN  IF v - lo < 5 THEN lo
        ELSE IF v - lo > 5 THEN lo + 10
        ELSE IF (lo \div 10) % 2 = 0 THEN lo ELSE lo + 10

\* str(x) of a float: shortest repr, always with a fractional part
str(v) ==
    LET w == v \div 100
        f == v % 100
    IN  DigitsOf(w) \o <<".">> \o
        (IF f % 10 = 0 THEN <<DigitChar(f \div 10)>>
         ELSE <<DigitChar(f \div 10), DigitChar(f % 10)>>)

\* re.match(r"^(10(\.0)?|\d(\.\d)?)$", text) on stripped text
RatingPatternNoTenPointZero(t) ==
    \/ t = <<"1", "0">>
    \/ Len(t) = 1 /\ IsDigit(t[1])
    \/ Len(t) = 3 /\ IsDigit(t[1]) /\ t[2] = "." /\ IsDigit(t[3])

RatingPattern(t) ==
    \/ t = <<"1", "0">>
    \/ t = <<"1", "0", ".", "0">>
    \/ Len(t) = 1 /\ IsDigit(t[1])
    \/ Len(t) = 3 /\ IsDigit(t[1]) /\ t[2] = "." /\ IsDigit(t[3])

parse_rating_no_pattern(t0) ==
    LET value == float(strip(t0))
    IN  IF value.ok THEN round1(value.val) ELSE None

parse_rating(t0) ==
    LET t == strip(t0)
    IN  IF t = <<>> THEN None
        ELSE IF ~RatingPattern(t) THEN None
        ELSE LET value == float(t)
             IN  IF value.ok /\ 0 <= value.val /\ value.val <= 1000
                 THEN round1(value.val)
                 ELSE None

(***************************************************************************)
(* The validator on its own: every text of bounded length is parsed, and   *)
(* an accepted rating is stringified and parsed again                      *)
(***************************************************************************)
Texts == UNION {[1..n -> Alphabet] : n \in 0..MaxLen}

\* the backing file does not exist
Absent == [kind |-> "absent", recs |-> <<>>]

\* no load_ratings call was made
NotLoaded == [outcome |-> "none", value |-> <<>>]

Idle ==
    /\ file = Absent
    /\ raw = <<>> /\ name = <<>> /\ rating = None
    /\ ratings = <<>> /\ sorted_indices = <<>> /\ shown = <<>>
    /\ msg = "" /\ loaded = NotLoaded /\ loads = 0 /\ saves = 0
    /\ echo = <<>> /\ again = None

InitParse ==
    /\ pc = "PARSE"
    /\ text \in Texts
    /\ Idle

Parse ==
    /\ pc = "PARSE"
    /\ rating' = parse_rating(text)
    /\ pc' = "PARSED"
    /\ UNCHANGED <<file, raw, name, ratings, sorted_indices, shown, msg,
                   loaded, loads, saves, text, echo, again>>

Reparse ==
    /\ pc = "PARSED"
    /\ rating # None
    /\ echo' = str(rating)
    /\ again' = parse_rating(echo')
    /\ pc' = "REPARSED"
    /\ UNCHANGED <<file, raw, name, rating, ratings, sorted_indices, shown,
                   msg, loaded, loads, saves, text>>

NextParse == Parse \/ Reparse

SpecParse == InitParse /\ [][NextParse]_vars

(***************************************************************************)
(* Storage accessor.  The backing file is absent, holds a JSON list of     *)
(* rating records, holds text that is not JSON ("malformed"), or holds the *)
(* well-formed JSON document {} ("object").                                *)
(***************************************************************************)
Stored(rs) == [kind |-> "list", recs |-> rs]

load_ratings(f) ==
    IF f.kind = "absent" THEN [outcome |-> "list", value |-> <<>>]
    ELSE IF f.kind = "malformed" THEN [outcome |-> "raised", value |-> <<>>]
    ELSE [outcome |-> f.kind, value |-> f.recs]

save_ratings(rs) == Stored(rs)

(***************************************************************************)
(* Display order                                                           *)
(***************************************************************************)
\* ord(c) of the characters that occur in timestamps
ord(c) == IF c = "." THEN 46 ELSE 48 + DigitVal(c)

\* s < t on Python str: lexicographic by code point
RECURSIVE StrLess(_, _)
StrLess(s, t) ==
    IF t = <<>> THEN FALSE
    ELSE IF s = <<>> THEN TRUE
    ELSE IF ord(Head(s)) # ord(Head(t)) THEN ord(Head(s)) < ord(Head(t))
    ELSE StrLess(Tail(s), Tail(t))

\* r.get("date", "")
get_date(r) == IF "date" \in DOMAIN r THEN r.date ELSE <<>>

_rating_sort_key_rating_only(r) == <<0 - r.rating, <<>>>>

_rating_sort_key(r) == <<0 - r.rating, get_date(r)>>

\* a < b on the key tuples
KeyLess(a, b) == a[1] < b[1] \/ (a[1] = b[1] /\ StrLess(a[2], b[2]))

\* sorted(xs, key=...), given the key of each element of xs: ascending by
\* key, stable (elements with equal keys keep the order they have in xs)
sorted(xs, keyed) ==
    LET n == Len(xs)
        keys == SubSeq(keyed, 1, n)
        place == SubSeq([i \in 1..n |->
                    1 + Cardinality({j \in 1..n :
                            \/ KeyLess(keys[j], keys[i])
                            \/ ~KeyLess(keys[i], keys[j]) /\ j < i})], 1, n)
    IN  [k \in 1..n |-> xs[CHOOSE i \in 1..n : place[i] = k]]

\* range(n)
range(n) == [k \in 1..n |-> k - 1]

\* view_ratings: sorted(ratings, key=_rating_sort_key)
sorted_ratings(rs) ==
    sorted(rs, [i \in 1..Len(rs) |-> _rating_sort_key(rs[i])])

sorted_indices_by_rating_only(rs) ==
    LET indices == range(Len(rs))
    IN  sorted(indices, [k \in 1..Len(rs) |->
                            _rating_sort_key_rating_only(rs[indices[k] + 1])])

\* delete_rating: sorted(range(len(ratings)),
\*                       key=lambda i: _rating_sort_key(ratings[i]))
sorted_indices_of(rs) ==
    LET indices == range(Len(rs))
    IN  sorted(indices, [k \in 1..Len(rs) |->
                            _rating_sort_key(rs[indices[k] + 1])])

prepend(xs, e) == <<e>> \o xs

\* ratings.append(entry)
append(xs, e) == Append(xs, e)

\* 1 <= display_num <= len(ratings)
valid_rank(display_num, n) == 1 <= display_num /\ display_num <= n

pop_last(xs, i) == SubSeq(xs, 1, Len(xs) - 1)

\* xs with the element at 0-based index i removed (list.pop(i))
pop(xs, i) == SubSeq(xs, 1, i) \o SubSeq(xs, i + 2, Len(xs))

\* datetime.now().isoformat(): the fractional part is omitted when the
\* microsecond field is zero; the date and hh:mm prefix is left out
isoformat(now) ==
    IF now.microsecond = 0 THEN DigitsOf(now.second)
    ELSE DigitsOf(now.second) \o <<".">> \o DigitsOf(now.microsecond)

\* readings of the local wall clock, which may repeat or step back
Clock == {[second |-> 0, microsecond |-> 0], [second |-> 0, microsecond |-> 5]}

(***************************************************************************)
(* User input                                                              *)
(***************************************************************************)
MenuInputs == {<<"1">>, <<"2">>, <<" ", "3">>, <<"4">>, <<"5">>, <<>>}

NameInputs == {<<>>, <<" ">>, <<"A">>, <<" ", "B", " ">>}

RatingInputs ==
    {<<"7">>, <<" ", "7", ".", "0">>, <<"9">>, <<"1", "0", ".", "5">>,
     <<"7", ".", "5", "5">>, <<"a">>, <<>>, <<ArabicSeven>>}

DeleteInputs ==
    {<<>>, <<" ">>, <<"a">>, <<"1", ".", "5">>, <<"-", "1">>, <<"9", "9">>}
      \cup {DigitsOf(k) : k \in 0..(MaxRecords + 1)}

(***************************************************************************)
(* Messages                                                                *)
(***************************************************************************)
MsgNameEmpty == "Wine name cannot be empty."

MsgInvalidRating == "Invalid. Use a number from 0 to 10 with at most one decimal (e.g. 8.5)."

MsgAdded == "Added"

MsgNoRatings == "No ratings yet. Add one from the menu."

MsgNothingToDelete == "No ratings yet. Nothing to delete."

MsgHeader == "--- Your wine ratings (best first) ---"

MsgCancelled == "Cancelled."

MsgDeleted == "Deleted"

MsgRange == "Please enter a number between 1 and n."

MsgFormat == "Please enter a valid number."

MsgMenu == "Please enter 1, 2, 3, or 4."

MsgBye == "Bye."

(***************************************************************************)
(* Operations.  msg and shown are what the step printed; loads and saves   *)
(* count the load_ratings and save_ratings calls the step made; loaded is  *)
(* what its load_ratings call returned.  The locals name, ratings and       *)
(* sorted_indices are empty outside the function that owns them; rating is *)
(* used by the validator runs only.                                        *)
(***************************************************************************)
Init ==
    /\ pc = "MENU"
    /\ text = <<>>
    /\ Idle

\* an exception that nothing catches ends the process
Crash(l) ==
    /\ pc' = "CRASHED"
    /\ msg' = "Traceback"
    /\ loaded' = l
    /\ loads' = 1 /\ saves' = 0
    /\ ratings' = <<>> /\ sorted_indices' = <<>> /\ shown' = <<>>
    /\ name' = <<>>
    /\ UNCHANGED <<file, rating>>

\* add_rating up to its first prompt
add_rating_begin ==
    /\ pc' = "ADD_NAME"
    /\ msg' = "" /\ shown' = <<>>
    /\ loaded' = NotLoaded /\ loads' = 0 /\ saves' = 0
    /\ UNCHANGED <<file, name, rating, ratings, sorted_indices>>

view_ratings ==
    LET l == load_ratings(file)
    IN  IF l.outcome = "raised" THEN Crash(l)
        ELSE /\ loaded' = l
             /\ loads' = 1 /\ saves' = 0
             /\ IF l.value = <<>>
                THEN msg' = MsgNoRatings /\ shown' = <<>>
                ELSE msg' = MsgHeader /\ shown' = sorted_ratings(l.value)
             /\ pc' = "MENU"
             /\ UNCHANGED <<file, name, rating, ratings, sorted_indices>>

\* delete_rating up to its prompt
delete_rating_begin ==
    LET l == load_ratings(file)
    IN  IF l.outcome = "raised" THEN Crash(l)
        ELSE /\ loaded' = l
             /\ loads' = 1 /\ saves' = 0
             /\ IF l.value = <<>>
                THEN /\ msg' = MsgNothingToDelete /\ shown' = <<>>
                     /\ pc' = "MENU"
                     /\ UNCHANGED <<ratings, sorted_indices>>
                ELSE /\ ratings' = l.value
                     /\ sorted_indices' = sorted_indices_of(l.value)
                     /\ shown' = [k \in 1..Len(l.value) |->
                                     l.value[sorted_indices'[k] + 1]]
                     /\ msg' = MsgHeader
                     /\ pc' = "DELETE_PROMPT"
             /\ UNCHANGED <<file, name, rating>>

quit ==
    /\ pc' = "QUIT"
    /\ msg' = MsgBye /\ shown' = <<>>
    /\ loaded' = NotLoaded /\ loads' = 0 /\ saves' = 0
    /\ UNCHANGED <<file, name, rating, ratings, sorted_indices>>

complain_and_quit ==
    /\ pc' = "QUIT"
    /\ msg' = MsgMenu /\ shown' = <<>>
    /\ loaded' = NotLoaded /\ loads' = 0 /\ saves' = 0
    /\ UNCHANGED <<file, name, rating, ratings, sorted_indices>>

\* the else branch of the dispatch
complain ==
    /\ pc' = "MENU"
    /\ msg' = MsgMenu /\ shown' = <<>>
    /\ loaded' = NotLoaded /\ loads' = 0 /\ saves' = 0
    /\ UNCHANGED <<file, name, rating, ratings, sorted_indices>>

\* one pass of the loop in main: read the choice and dispatch
main ==
    /\ pc = "MENU"
    /\ \E line \in MenuInputs :
          /\ raw' = strip(line)
          \* the store of the model holds at most MaxRecords records
          /\ raw' = <<"1">> => Len(file.recs) < MaxRecords
          /\ IF raw' = <<"1">> THEN add_rating_begin
             ELSE IF raw' = <<"2">> THEN view_ratings
             ELSE IF raw' = <<"3">> THEN delete_rating_begin
             ELSE IF raw' = <<"4">> THEN quit
             ELSE complain
    /\ UNCHANGED <<text, echo, again>>

\* add_rating: the wine name prompt
add_rating_name ==
    /\ pc = "ADD_NAME"
    /\ \E line \in NameInputs :
          /\ raw' = strip(line)
          /\ IF strip(line) = <<>>
             THEN msg' = MsgNameEmpty /\ pc' = "MENU" /\ name' = <<>>
             ELSE msg' = "" /\ pc' = "ADD_RATING" /\ name' = strip(line)
    /\ shown' = <<>>
    /\ loaded' = NotLoaded /\ loads' = 0 /\ saves' = 0
    /\ UNCHANGED <<file, rating, ratings, sorted_indices, text, echo, again>>

\* add_rating: one round of the rating prompt, and on an accepted rating the
\* rest of the function
add_rating_rating ==
    /\ pc = "ADD_RATING"
    /\ \E line \in RatingInputs, now \in Clock :
          /\ raw' = strip(line)
          /\ IF parse_rating(raw') = None
             THEN /\ msg' = MsgInvalidRating
                  /\ pc' = "ADD_RATING"
                  /\ shown' = <<>>
                  /\ loaded' = NotLoaded /\ loads' = 0 /\ saves' = 0
                  /\ UNCHANGED <<file, name, rating, ratings, sorted_indices>>
             ELSE LET l == load_ratings(file)
                      entry == [wine |-> name, rating |-> parse_rating(raw'),
                                date |-> isoformat(now)]
                  IN  IF l.outcome # "list" THEN Crash(l)
                      ELSE /\ loaded' = l
                           /\ file' = save_ratings(append(l.value, entry))
                           /\ loads' = 1 /\ saves' = 1
                           /\ msg' = MsgAdded /\ shown' = <<>>
                           /\ pc' = "MENU"
                           /\ name' = <<>>
                           /\ UNCHANGED <<rating, ratings, sorted_indices>>
    /\ UNCHANGED <<text, echo, again>>

\* delete_rating from its prompt on
delete_rating_choose ==
    /\ pc = "DELETE_PROMPT"
    /\ \E line \in DeleteInputs :
          /\ raw' = strip(line)
          /\ IF raw' = <<>>
             THEN /\ msg' = MsgCancelled
                  /\ UNCHANGED <<file, saves>>
             ELSE LET display_num == int(raw')
                  IN  IF ~display_num.ok
                      THEN /\ msg' = MsgFormat
                           /\ UNCHANGED <<file, saves>>
                      ELSE IF valid_rank(display_num.val, Len(ratings))
                      THEN LET real_i == sorted_indices[display_num.val]
                           IN  /\ file' = save_ratings(pop(ratings, real_i))
                               /\ saves' = 1
                               /\ msg' = MsgDeleted
                      ELSE /\ msg' = MsgRange
                           /\ UNCHANGED <<file, saves>>
    /\ pc' = "MENU"
    /\ ratings' = <<>> /\ sorted_indices' = <<>> /\ shown' = <<>>
    /\ loaded' = NotLoaded /\ loads' = 0
    /\ UNCHANGED <<name, rating, text, echo, again>>

Next ==
    \/ main
    \/ add_rating_name
    \/ add_rating_rating
    \/ delete_rating_choose

Spec == Init /\ [][Next]_vars

(***************************************************************************)
(* The same loop started on an arbitrary backing file: any list of at most *)
(* MaxRecords well-formed records (the date key may be missing), text that *)
(* is not JSON, or the JSON document {}                                    *)
(***************************************************************************)
StoreRecords ==
    [wine : {<<"A">>, <<"B">>}, rating : {700, 900},
     date : {isoformat(now) : now \in Clock}]
      \cup [wine : {<<"A">>}, rating : {700, 900}]

Files ==
    {Absent, [kind |-> "malformed", recs |-> <<>>], [kind |-> "object", recs |-> <<>>]}
      \cup {Stored(rs) : rs \in UNION {[1..n -> StoreRecords] : n \in 0..MaxRecords}}

InitStore ==
    /\ pc = "MENU"
    /\ text = <<>>
    /\ file \in Files
    /\ raw = <<>> /\ name = <<>> /\ rating = None
    /\ ratings = <<>> /\ sorted_indices = <<>> /\ shown = <<>>
    /\ msg = "" /\ loaded = NotLoaded /\ loads = 0 /\ saves = 0
    /\ echo = <<>> /\ again = None

SpecStore == InitStore /\ [][Next]_vars

(***************************************************************************)
(* Validator claims                                                        *)
(***************************************************************************)
\* The strings the validator is documented to accept, written with the
\* ASCII digits "0".."9"
InDocumentedSet(t) ==
    \/ t = <<"1", "0">>
    \/ t = <<"1", "0", ".", "0">>
    \/ Len(t) = 1 /\ t[1] \in AsciiDigits
    \/ Len(t) = 3 /\ t[1] \in AsciiDigits /\ t[2] = "." /\ t[3] \in AsciiDigits

DocumentedValue(t) ==
    IF t[1] = "1" /\ Len(t) \in {2, 4} THEN 1000
    ELSE IF Len(t) = 1 THEN 100 * DigitVal(t[1])
    ELSE 100 * DigitVal(t[1]) + 10 * DigitVal(t[3])

\* C1: parse_rating accepts exactly "0".."10", X.Y (X, Y ASCII digits) and
\* "10.0" after trimming, returning the numeric value, and returns None for
\* every other text.
C1_AcceptsExactlyDocumentedSet ==
    pc \in {"PARSED", "REPARSED"} =>
        LET t == strip(text)
        IN  IF InDocumentedSet(t) THEN rating = DocumentedValue(t)
            ELSE rating = None

\* C5: for every accepted text, parsing the stringified result gives the
\* same rating again (so the stringified result is itself accepted).
C5_ReparseIdempotent ==
    pc = "REPARSED" => again # None /\ again = rating

C5_Witness ==
    /\ pc = "REPARSED"
    /\ text = <<"1", "0">>
    /\ echo = <<"1", "0", ".", "0">>
    /\ again = 1000

(***************************************************************************)
(* Ordering claims                                                         *)
(***************************************************************************)
RatingsShown == {shown[k].rating : k \in 1..Len(shown)}

KeysShown == {_rating_sort_key(shown[k]) : k \in 1..Len(shown)}

\* a listing printed by view_ratings, whose store is still in the file
Viewed == pc = "MENU" /\ msg = MsgHeader

\* a listing printed by delete_rating, whose store is in ratings
Listed == pc = "DELETE_PROMPT"

\* C2 as stated: the listing of view_ratings and of delete_rating is
\* non-increasing in rating, and records of equal rating appear in storage
\* order whatever their timestamps are.
C2_TiesInStorageOrder ==
    /\ Viewed =>
          /\ \A k \in 1..Len(shown), m \in 1..Len(shown) :
                k < m => shown[k].rating >= shown[m].rating
          /\ \A r \in RatingsShown :
                SelectSeq(shown, LAMBDA x : x.rating = r)
                    = SelectSeq(file.recs, LAMBDA x : x.rating = r)
    /\ Listed =>
          \A k \in 1..Len(shown), m \in 1..Len(shown) :
             k < m =>
                /\ shown[k].rating >= shown[m].rating
                /\ shown[k].rating = shown[m].rating
                      => sorted_indices[k] < sorted_indices[m]

\* C2 amended: the listing is non-increasing in rating; records of equal
\* rating appear in ascending order of their date string (a missing date
\* counts as the empty string); records of equal rating and equal date
\* string appear in storage order.
C2_TiesByDateThenStorageOrder ==
    /\ Viewed =>
          /\ \A k \in 1..Len(shown), m \in 1..Len(shown) :
                k < m =>
                   /\ shown[k].rating >= shown[m].rating
                   /\ shown[k].rating = shown[m].rating
                         => ~StrLess(get_date(shown[m]), get_date(shown[k]))
          /\ \A key \in KeysShown :
                SelectSeq(shown, LAMBDA x : _rating_sort_key(x) = key)
                    = SelectSeq(file.recs, LAMBDA x : _rating_sort_key(x) = key)
    /\ Listed =>
          \A k \in 1..Len(shown), m \in 1..Len(shown) :
             k < m =>
                /\ shown[k] = ratings[sorted_indices[k] + 1]
                /\ shown[k].rating >= shown[m].rating
                /\ shown[k].rating = shown[m].rating
                      => ~StrLess(get_date(shown[m]), get_date(shown[k]))
                /\ _rating_sort_key(shown[k]) = _rating_sort_key(shown[m])
                      => sorted_indices[k] < sorted_indices[m]

\* a listing with two records of equal rating and equal date shown in storage
\* order, and two of equal rating shown against storage order
C2_Witness ==
    /\ Listed
    /\ \E k \in 1..Len(shown), m \in 1..Len(shown) :
          /\ k < m
          /\ _rating_sort_key(shown[k]) = _rating_sort_key(shown[m])
          /\ shown[k] # shown[m]
    /\ \E k \in 1..Len(shown), m \in 1..Len(shown) :
          /\ k < m
          /\ shown[k].rating = shown[m].rating
          /\ sorted_indices[k] > sorted_indices[m]
          /\ "date" \notin DOMAIN shown[k]

\* C10: delete_rating lists, at every rank, the record view_ratings lists at
\* that rank on the same store, and its ranks map one-to-one onto the storage
\* positions.
C10_DeleteListsAsView ==
    Listed =>
       /\ Len(sorted_indices) = Len(ratings)
       /\ {sorted_indices[k] : k \in 1..Len(ratings)} = 0..(Len(ratings) - 1)
       /\ [k \in 1..Len(ratings) |-> ratings[sorted_indices[k] + 1]]
             = sorted_ratings(ratings)
       /\ shown = sorted_ratings(ratings)

C10_Witness ==
    /\ Listed
    /\ Len(ratings) >= 3
    /\ sorted_indices # range(Len(ratings))
    /\ \E k \in 1..Len(shown), m \in 1..Len(shown) :
          k # m /\ _rating_sort_key(shown[k]) = _rating_sort_key(shown[m])

(***************************************************************************)
(* Storage claims                                                          *)
(***************************************************************************)
\* C6: load returns the empty sequence for an absent file and the stored
\* sequence for a file that holds one, raises for any other content, and so
\* never hands a value that is not a sequence to add, view or delete.
C6_LoadReturnsSequenceOrFails ==
    /\ loaded.outcome \in {"none", "list", "raised"}
    /\ loads = 1 /\ saves = 0 =>
          /\ file.kind = "absent" => loaded = [outcome |-> "list", value |-> <<>>]
          /\ file.kind = "list" => loaded = [outcome |-> "list", value |-> file.recs]
          /\ file.kind \in {"malformed", "object"} => loaded.outcome = "raised"

\* C8: every persisted record has a rating in [0, 10] with at most one
\* decimal digit and a wine name that is not empty after trimming.
C8_StoredRecordsValid ==
    /\ file.kind \in {"absent", "list"}
    /\ \A i \in 1..Len(file.recs) :
          LET r == file.recs[i]
          IN  /\ 0 <= r.rating /\ r.rating <= 1000
              /\ r.rating % 10 = 0
              /\ r.wine # <<>>
              /\ \E j \in 1..Len(r.wine) : ~IsSpace(r.wine[j])

C8_Witness ==
    /\ Len(file.recs) >= 2
    /\ \E i \in 1..Len(file.recs) : file.recs[i].wine = <<"B">>
    /\ \E i \in 1..Len(file.recs) : file.recs[i].rating = 900

(***************************************************************************)
(* Operation claims                                                        *)
(***************************************************************************)
\* the text is an integer written with ASCII digits and an optional sign
IntegerText(t) ==
    /\ Unsigned(t) # <<>>
    /\ \A i \in 1..Len(Unsigned(t)) : Unsigned(t)[i] \in AsciiDigits

IntegerValue(t) == Signed(t, DigitsValue(Unsigned(t)))

\* the text holds no digit at all
NonNumericText(t) == t # <<>> /\ \A i \in 1..Len(t) : ~IsDigit(t[i])

\* xs without its p-th element
Without(xs, p) == [i \in 1..(Len(xs) - 1) |-> IF i < p THEN xs[i] ELSE xs[i + 1]]

\* C3: entering a rank k in 1..n persists the stored sequence with exactly
\* one record removed, the one displayed at rank k; the others keep their
\* content and relative order.
C3_DeleteRemovesDisplayedRecord ==
    [][(/\ pc = "DELETE_PROMPT"
        /\ IntegerText(raw')
        /\ IntegerValue(raw') \in 1..Len(file.recs))
          => /\ saves' = 1
             /\ file'.kind = "list"
             /\ \E p \in 1..Len(file.recs) :
                   /\ file.recs[p] = shown[IntegerValue(raw')]
                   /\ p = sorted_indices[IntegerValue(raw')] + 1
                   /\ file'.recs = Without(file.recs, p)]_vars

C3_Witness ==
    /\ pc = "MENU"
    /\ msg = MsgDeleted
    /\ raw = <<"2">>
    /\ Len(file.recs) = 2
    /\ file.recs[1].rating < file.recs[2].rating

C9_AddAppends ==
    [][/\ (pc = "ADD_RATING" /\ pc' = "MENU")
             => /\ loads' = 1 /\ saves' = 1
                /\ file'.kind = "list"
                /\ Len(file'.recs) = Len(file.recs) + 1
                /\ SubSeq(file'.recs, 1, Len(file.recs)) = file.recs
                /\ LET new == file'.recs[Len(file'.recs)]
                   IN  /\ new.wine = name
                       /\ parse_rating(raw') # None
                       /\ new.rating = parse_rating(raw')
                       /\ new.date \in {isoformat(now) : now \in Clock}
       /\ (pc = "ADD_NAME" /\ raw' = <<>>)
             => /\ pc' = "MENU" /\ msg' = MsgNameEmpty
                /\ loads' = 0 /\ saves' = 0 /\ file' = file
       /\ (pc = "ADD_NAME" /\ raw' # <<>>)
             => pc' = "ADD_RATING" /\ loads' = 0 /\ saves' = 0 /\ file' = file
       /\ (pc = "ADD_RATING" /\ parse_rating(raw') = None)
             => /\ pc' = "ADD_RATING" /\ msg' = MsgInvalidRating
                /\ saves' = 0 /\ file' = file]_vars

C9_Witness ==
    /\ pc = "MENU"
    /\ msg = MsgAdded
    /\ Len(file.recs) = 3
    /\ file.recs[3].wine = <<"B">>
    /\ file.recs[1].wine = <<"A">>

\* C7: the loop starts in MENU; "1", "2", "3" run add, view, delete; any
\* other choice but "4" complains and shows the menu again; every operation,
\* also one that ends in a validation error, comes back to MENU; the loop
\* ends only on "4".
C7_MenuLoop ==
    /\ pc = "MENU"
    /\ [](pc \in {"MENU", "ADD_NAME", "ADD_RATING", "DELETE_PROMPT", "QUIT"})
    /\ [][/\ pc = "MENU" =>
                /\ raw' = <<"1">> => pc' = "ADD_NAME"
                /\ raw' = <<"2">> =>
                      pc' = "MENU" /\ loads' = 1 /\ msg' \in {MsgNoRatings, MsgHeader}
                /\ raw' = <<"3">> =>
                      \/ pc' = "DELETE_PROMPT" /\ msg' = MsgHeader
                      \/ pc' = "MENU" /\ msg' = MsgNothingToDelete
                /\ raw' = <<"4">> => pc' = "QUIT"
                /\ raw' \notin {<<"1">>, <<"2">>, <<"3">>, <<"4">>} =>
                      pc' = "MENU" /\ msg' = MsgMenu /\ file' = file
          /\ pc = "ADD_NAME" => pc' \in {"MENU", "ADD_RATING"}
          /\ pc = "ADD_RATING" => pc' \in {"MENU", "ADD_RATING"}
          /\ pc = "DELETE_PROMPT" => pc' = "MENU"
          /\ pc' = "QUIT" => pc = "MENU" /\ raw' = <<"4">>
          /\ msg' \in {MsgNameEmpty, MsgCancelled, MsgRange, MsgFormat}
                => pc' = "MENU"
          /\ pc # "QUIT"]_vars

C7_Witness ==
    /\ pc = "QUIT"
    /\ raw = <<"4">>
    /\ Len(file.recs) = 2

====
